---- MODULE Spec2Model ----
(***************************************************************************)
(* NeuroAnalyst backend (src/app.py): the in-memory session store with its *)
(* TTL and capacity eviction, the four request handlers, and the bounded   *)
(* breadth-first crawler.                                                  *)
(*                                                                         *)
(*   Spec      requests handled one at a time (each handler one action)    *)
(*   SpecConc  requests handled by concurrent threads, one store access    *)
(*             per step                                                    *)
(*   SpecEvict cleanup_old_sessions and limit_sessions applied to stores   *)
(*             drawn from a bounded set                                    *)
(*   SpecCrawl crawl_site on link graphs drawn from a bounded set          *)
(*   SpecCrawlLive  SpecCrawl with every loop iteration coming to its end   *)
(*   SpecChat  as Spec, on one site and with longer conversations          *)
(*   SpecNorm  normalize_link applied to an href and to its own result     *)
(***************************************************************************)
EXTENDS Integers, Sequences, FiniteSets, TLC

\* ------------------------------------------------------------------------
\* Program constants
\* ------------------------------------------------------------------------
\* src/app.py:23
SESSION_TTL_HOURS == 24

\* src/app.py:24 sets MAX_SESSIONS = 100.  The model runs the same code with
\* a scaled-down capacity; every formula is stated in terms of MAX_SESSIONS.
MAX_SESSIONS == 1

\* Python's None (an absent JSON field, last_followup after creation).
None == "None"

\* ------------------------------------------------------------------------
\* Bounds of the model
\* ------------------------------------------------------------------------
\* The clock advances in steps of TickHours, up to MaxClock hours.
TickHours == 24
MaxClock == 48
\* Number of session identifiers uuid4() hands out in a run.
MaxUuid == 2
\* Longest conversation history kept in a session (entries).
MaxHistory == 2

\* The site URLs a client submits, the texts the model returns, the
\* follow-up prompts a client sends.
Sites == {"site1", "site2"}
Outputs == {"out1", "out2"}
Instructions == {"ask"}
\* A session_id a client made up (never produced by uuid4()).
ClientSid == "client-made"

\* Outcome of the remote calls of a request: the prompt document fetch and
\* the model call (fetch_gdoc_text raises ValueError, the model call raises).
Outcomes == {"ok", "doc_fail", "model_fail"}

\* ------------------------------------------------------------------------
\* State
\* ------------------------------------------------------------------------
VARIABLES
    STORE,      \* the dict: a sequence of [sid, ref] in insertion order
    heap,       \* the session dict objects: ref -> session
    now,        \* datetime.now(), in hours
    issued,     \* how many identifiers of uuid4() have been put to use
    resp,       \* the response of the request completed by the last step
    th,         \* SpecConc: per thread, the handler's position and locals
    ev,         \* SpecEvict: the eviction calls made so far
    \* crawl_site: its arguments, its locals, and the requests it has sent
    start_url, max_pages, depth, visited, queue, pages, fetched, result,
    \* normalize_link: its arguments and the values it has returned
    base, href, returned

storeVars == <<STORE, heap, now, issued, resp>>
crawlVars == <<start_url, max_pages, depth, visited, queue, pages, fetched, result>>
normVars == <<base, href, returned>>
vars == <<storeVars, th, ev, crawlVars, normVars>>

\* ------------------------------------------------------------------------
\* The dict STORE (insertion ordered, as Python dicts are)
\* ------------------------------------------------------------------------
Keys(S) == {S[i].sid : i \in 1..Len(S)}

Has(S, k) == k \in Keys(S)

Get(S, k) == S[CHOOSE i \in 1..Len(S) : S[i].sid = k].ref

\* del S[k]
Del(S, k) == SelectSeq(S, LAMBDA e : e.sid # k)

\* S[k] = r: an existing key keeps its position, a new key goes last.
Put(S, k, r) ==
    IF Has(S, k)
    THEN [i \in 1..Len(S) |-> IF S[i].sid = k THEN [sid |-> k, ref |-> r] ELSE S[i]]
    ELSE Append(S, [sid |-> k, ref |-> r])

Refs(S) == {S[i].ref : i \in 1..Len(S)}

\* A new dict object for key k.  Objects are named <<k, n>>, n the smallest
\* number not naming a live object of that key.
NewRef(H, k) ==
    LET n == CHOOSE n \in 1..(Cardinality(DOMAIN H) + 1) :
                 /\ <<k, n>> \notin DOMAIN H
                 /\ \A m \in 1..(n - 1) : <<k, m>> \in DOMAIN H
    IN  <<k, n>>

\* Objects no longer referenced are collected.
Collect(H, live) == [r \in (DOMAIN H) \cap live |-> H[r]]

\* The session dict written by /analyze.
NewSession(site, out, t) ==
    [site |-> site, first_output |-> out, last_followup |-> None,
     history |-> <<>>, created_at |-> t]

\* ------------------------------------------------------------------------
\* Eviction
\* ------------------------------------------------------------------------
\* (now - created_at) > timedelta(hours=SESSION_TTL_HOURS).  created_at is a
\* datetime, always truthy, so the `sess.get("created_at") and` guard passes.
Expired(sess, t) == (t - sess.created_at) > SESSION_TTL_HOURS

\* The list to_delete of cleanup_old_sessions, in dict order.
ExpiredSids(S, H, t) ==
    LET hit == SelectSeq(S, LAMBDA e : Expired(H[e.ref], t))
    IN  [i \in 1..Len(hit) |-> hit[i].sid]

RECURSIVE DelAll(_, _)
DelAll(S, sids) ==
    IF sids = <<>> THEN S ELSE DelAll(Del(S, Head(sids)), Tail(sids))

cleanup_old_sessions(S, H, t) == DelAll(S, ExpiredSids(S, H, t))

\* sorted(items, key=created_at): Python's sort is stable, so an item goes
\* after every item whose key is less than or equal to its own.
InsertByAge(sorted, e, H) ==
    LET k == Cardinality({i \in 1..Len(sorted) :
                 H[sorted[i].ref].created_at <= H[e.ref].created_at})
    IN  SubSeq(sorted, 1, k) \o <<e>> \o SubSeq(sorted, k + 1, Len(sorted))

\* Mutant of SortedByAge: the items stay in insertion order.
SortedByAge_insertion_order(S, H) == S

RECURSIVE SortedByAge(_, _)
SortedByAge(S, H) ==
    IF S = <<>> THEN <<>>
    ELSE InsertByAge(SortedByAge(SubSeq(S, 1, Len(S) - 1), H), S[Len(S)], H)

\* The sids limit_sessions deletes: sorted_sessions[:to_delete].
OverflowSids(S, H) ==
    IF Len(S) > MAX_SESSIONS
    THEN LET srt == SortedByAge(S, H)
         IN  [i \in 1..(Len(S) - MAX_SESSIONS) |-> srt[i].sid]
    ELSE <<>>

\* Mutant of limit_sessions: to_delete is one short.
limit_sessions_one_short(S, H) ==
    LET sids == OverflowSids(S, H)
    IN  DelAll(S, SubSeq(sids, 1, Len(sids) - 1))

limit_sessions(S, H) == DelAll(S, OverflowSids(S, H))

\* Mutant of cleanup_then_limit: to_delete is counted on the store as it was
\* before the expired entries went.
cleanup_then_limit_counts_expired(S, H, t) ==
    LET S1  == cleanup_old_sessions(S, H, t)
        srt == SortedByAge(S1, H)
        n   == IF Len(S) - MAX_SESSIONS < 0 THEN 0
               ELSE IF Len(S) - MAX_SESSIONS > Len(S1) THEN Len(S1)
               ELSE Len(S) - MAX_SESSIONS
    IN  DelAll(S1, [i \in 1..n |-> srt[i].sid])

\* The two calls that open analyze: cleanup_old_sessions(), limit_sessions().
cleanup_then_limit(S, H, t) == limit_sessions(cleanup_old_sessions(S, H, t), H)

\* ------------------------------------------------------------------------
\* Requests and responses
\* ------------------------------------------------------------------------
\* No request completed in the last step.
NoResp == [kind |-> "none"]

\* crawl_site has not returned.
NoResult == [count |-> -1]

\* What crawl_site(site_url) hands to the session (the crawl itself is
\* modelled by SpecCrawl): the crawl result of that start URL.
SiteData(site_url) == [start_url |-> site_url]

\* The identifiers uuid4() returns, in the order it returns them.
Uuid(i) == "uuid" \o ToString(i)

\* The identifier uuid4() returns next: one never used before.
FreshSid == Uuid(issued + 1)

\* session_id values a client can send: none, an identifier the server
\* issued earlier, or a string of its own making.
ClientSids == {None, ClientSid} \cup {Uuid(i) : i \in 1..issued}

\* A completed exchange: the endpoint, the session_id the request carried,
\* the HTTP status, the JSON body, and the remote operations the handler
\* started while serving it, in order.
Response(kind, session_id, status, body, calls) ==
    [kind |-> kind, session_id |-> session_id, status |-> status, body |-> body,
     calls |-> calls]

\* The body of every error response.
Error == [error |-> "error"]

\* What the remote calls of a request may do: nothing is called when the
\* request is rejected first, and the model returns a text only on success.
OutcomesOf(called) == IF called THEN Outcomes ELSE {"not_called"}
OutputsOf(outcome) == IF outcome = "ok" THEN Outputs ELSE {None}

\* Mutant of AnalyzeCalls: a failed document fetch is tried again.
AnalyzeCalls_retry(site_url, outcome) ==
    IF site_url = None THEN <<>>
    ELSE IF outcome = "doc_fail" THEN <<"fetch_gdoc_text", "fetch_gdoc_text">>
    ELSE <<"fetch_gdoc_text", "crawl_site", "call_main_model">>

\* The remote operations of analyze: none before the site_url test, then
\* fetch_gdoc_text, crawl_site and call_main_model once each, the try block
\* ending at the first that raises.
AnalyzeCalls(site_url, outcome) ==
    IF site_url = None THEN <<>>
    ELSE IF outcome = "doc_fail" THEN <<"fetch_gdoc_text">>
    ELSE <<"fetch_gdoc_text", "crawl_site", "call_main_model">>

\* Mutant of FollowupCalls: the prompt document is fetched before the lookup.
FollowupCalls_fetch_before_lookup(found, user_instruction, outcome) ==
    IF ~found \/ outcome = "doc_fail" \/ user_instruction = None
    THEN <<"fetch_gdoc_text">>
    ELSE <<"fetch_gdoc_text", "call_followup_model">>

\* The remote operations of followup: none when the session is not found,
\* then fetch_gdoc_text and the model request once each.  With no
\* followup_prompt call_followup_model raises before it sends the request.
FollowupCalls(found, user_instruction, outcome) ==
    IF ~found THEN <<>>
    ELSE IF outcome = "doc_fail" \/ user_instruction = None
    THEN <<"fetch_gdoc_text">>
    ELSE <<"fetch_gdoc_text", "call_followup_model">>

\* Mutant of ReuseSid: the identifier sent is never taken over.
ReuseSid_never(S, existing_sid) == FALSE

\* Mutant of ReuseSid: the identifier sent is taken whenever one is sent.
ReuseSid_whenever_sent(S, existing_sid) == existing_sid # None

\* `if existing_sid and existing_sid in STORE` (analyze), after eviction.
ReuseSid(S, existing_sid) == existing_sid # None /\ Has(S, existing_sid)

\* `if not sid or sid not in STORE` (followup, clear_chat).
NotFound(S, sid) == sid = None \/ ~Has(S, sid)

\* Mutant of FollowupWrite: the assistant's entry is appended first.
FollowupWrite_assistant_first(sess, user_instruction, model_text) ==
    [sess EXCEPT !.last_followup = model_text,
                 !.history = Append(Append(@,
                                 [role |-> "assistant", content |-> model_text]),
                                 [role |-> "user", content |-> user_instruction])]

\* The three writes of a successful follow-up on the dict object sess.
FollowupWrite(sess, user_instruction, model_text) ==
    [sess EXCEPT !.last_followup = model_text,
                 !.history = Append(Append(@,
                                 [role |-> "user", content |-> user_instruction]),
                                 [role |-> "assistant", content |-> model_text])]

\* Mutant of ClearWrite: last_followup is left as it was.
ClearWrite_keeps_last_followup(sess) == [sess EXCEPT !.history = <<>>]

\* The two writes of clear_chat on the dict object sess.
ClearWrite(sess) == [sess EXCEPT !.history = <<>>, !.last_followup = None]

\* ------------------------------------------------------------------------
\* Spec: the handlers, one request at a time
\* ------------------------------------------------------------------------
Init ==
    /\ STORE = <<>>
    /\ heap = [r \in {} |-> None]
    /\ now = 0
    /\ issued = 0
    /\ resp = NoResp
    /\ th = <<>>
    /\ ev = <<>>
    /\ start_url = None /\ max_pages = 0 /\ depth = 0
    /\ visited = {} /\ queue = <<>> /\ pages = <<>>
    /\ fetched = <<>> /\ result = NoResult
    /\ base = None /\ href = None /\ returned = <<>>

\* GET /ping
ping ==
    /\ resp' = Response("ping", None, 200, [sessions |-> Len(STORE)], <<>>)
    /\ UNCHANGED <<STORE, heap, now, issued>>

\* POST /analyze.  site_url and session_id are the request's fields, outcome
\* and model_output what the remote calls do.
analyze(site_url, existing_sid, outcome, model_output) ==
    LET S1  == cleanup_old_sessions(STORE, heap, now)
        S2  == limit_sessions(S1, heap)
        req == existing_sid
        sid == IF ReuseSid(S2, existing_sid) THEN existing_sid ELSE FreshSid
        r   == NewRef(Collect(heap, Refs(Del(S2, sid))), sid)
    IN  IF site_url = None
        THEN /\ STORE' = S2
             /\ heap' = Collect(heap, Refs(S2))
             /\ resp' = Response("analyze", req, 400, Error,
                                AnalyzeCalls(site_url, outcome))
             /\ UNCHANGED <<now, issued>>
        ELSE IF outcome # "ok"
        THEN /\ STORE' = S2
             /\ heap' = Collect(heap, Refs(S2))
             /\ resp' = Response("analyze", req, 500, Error,
                                AnalyzeCalls(site_url, outcome))
             /\ UNCHANGED <<now, issued>>
        ELSE /\ sid = FreshSid => issued < MaxUuid
             /\ STORE' = Put(S2, sid, r)
             /\ heap' = [q \in Refs(Put(S2, sid, r)) |->
                            IF q = r
                            THEN NewSession(SiteData(site_url), model_output, now)
                            ELSE heap[q]]
             /\ issued' = IF sid = FreshSid THEN issued + 1 ELSE issued
             /\ resp' = Response("analyze", req, 200,
                            [session_id |-> sid, result |-> model_output],
                            AnalyzeCalls(site_url, outcome))
             /\ UNCHANGED now

\* POST /followup, with the history kept to cap entries.  A missing followup_prompt (None) makes call_followup_model
\* raise on None[:100] before the model is called: a 500.
followup_capped(cap, sid, user_instruction, outcome, model_text) ==
    LET req == sid
    IN  IF NotFound(STORE, sid)
        THEN /\ resp' = Response("followup", req, 404, Error,
                                FollowupCalls(FALSE, user_instruction, outcome))
             /\ UNCHANGED <<STORE, heap, now, issued>>
        ELSE IF outcome # "ok" \/ user_instruction = None
        THEN /\ resp' = Response("followup", req, 500, Error,
                                FollowupCalls(TRUE, user_instruction, outcome))
             /\ UNCHANGED <<STORE, heap, now, issued>>
        ELSE /\ Len(heap[Get(STORE, sid)].history) + 2 <= cap
             /\ heap' = [heap EXCEPT ![Get(STORE, sid)] =
                            FollowupWrite(@, user_instruction, model_text)]
             /\ resp' = Response("followup", req, 200, [result |-> model_text],
                            FollowupCalls(TRUE, user_instruction, outcome))
             /\ UNCHANGED <<STORE, now, issued>>

followup(sid, user_instruction, outcome, model_text) ==
    followup_capped(MaxHistory, sid, user_instruction, outcome, model_text)

\* POST /clear-chat
clear_chat(sid) ==
    LET req == sid
    IN  IF NotFound(STORE, sid)
        THEN /\ resp' = Response("clear_chat", req, 404, Error, <<>>)
             /\ UNCHANGED <<STORE, heap, now, issued>>
        ELSE /\ heap' = [heap EXCEPT ![Get(STORE, sid)] = ClearWrite(@)]
             /\ resp' = Response("clear_chat", req, 200,
                            [session_id |-> sid,
                             messages_count |-> Len(heap[Get(STORE, sid)].history)],
                            <<>>)
             /\ UNCHANGED <<STORE, now, issued>>

\* Time passes between requests.
Tick ==
    /\ now + TickHours <= MaxClock
    /\ now' = now + TickHours
    /\ resp' = NoResp
    /\ UNCHANGED <<STORE, heap, issued>>
    /\ UNCHANGED <<th, ev, crawlVars, normVars>>

Ping ==
    /\ ping
    /\ UNCHANGED <<th, ev, crawlVars, normVars>>

Analyze ==
    /\ \E site_url \in Sites \cup {None}, existing_sid \in ClientSids :
         \E outcome \in OutcomesOf(site_url # None) :
           \E model_output \in OutputsOf(outcome) :
             analyze(site_url, existing_sid, outcome, model_output)
    /\ UNCHANGED <<th, ev, crawlVars, normVars>>

Followup ==
    /\ \E sid \in ClientSids, user_instruction \in Instructions \cup {None} :
         \E outcome \in OutcomesOf(~NotFound(STORE, sid)) :
           \E model_text \in OutputsOf(outcome) :
             followup(sid, user_instruction, outcome, model_text)
    /\ UNCHANGED <<th, ev, crawlVars, normVars>>

ClearChat ==
    /\ \E sid \in ClientSids : clear_chat(sid)
    /\ UNCHANGED <<th, ev, crawlVars, normVars>>

Next == Ping \/ Analyze \/ Followup \/ ClearChat \/ Tick

Spec == Init /\ [][Next]_vars

\* ------------------------------------------------------------------------
\* SpecChat: the handlers, one request at a time, on longer conversations
\* ------------------------------------------------------------------------
\* Longest history kept here: two follow-ups on the same session.
MaxChatHistory == 4

ChatSites == {"site1"}

ChatAnalyze ==
    /\ \E site_url \in ChatSites, existing_sid \in ClientSids :
         \E outcome \in Outcomes :
           \E model_output \in OutputsOf(outcome) :
             analyze(site_url, existing_sid, outcome, model_output)
    /\ UNCHANGED <<th, ev, crawlVars, normVars>>

ChatFollowup ==
    /\ \E sid \in ClientSids, user_instruction \in Instructions \cup {None} :
         \E outcome \in OutcomesOf(~NotFound(STORE, sid)) :
           \E model_text \in OutputsOf(outcome) :
             followup_capped(MaxChatHistory, sid, user_instruction, outcome,
                             model_text)
    /\ UNCHANGED <<th, ev, crawlVars, normVars>>

NextChat == ChatAnalyze \/ ChatFollowup \/ ClearChat \/ Tick

SpecChat == Init /\ [][NextChat]_vars

\* ------------------------------------------------------------------------
\* SpecEvict: the two eviction functions on any store
\* ------------------------------------------------------------------------
\* Eviction calls made in a run.
MaxEvOps == 2

Clock == {t \in 0..MaxClock : t % TickHours = 0}

\* The stores drawn: up to MAX_SESSIONS + 2 sessions, in any insertion
\* order, each created at some past time.
EvictSids == {Uuid(i) : i \in 1..(MAX_SESSIONS + 2)}

DistinctSeqs(ids, n) ==
    {q \in [1..n -> ids] : \A i, j \in 1..n : i # j => q[i] # q[j]}

InitEvict ==
    /\ now \in Clock
    /\ \E n \in 0..(MAX_SESSIONS + 2) :
         \E ks \in DistinctSeqs(EvictSids, n) :
           \E at \in [1..n -> {t \in Clock : t <= now}] :
             /\ STORE = [i \in 1..n |-> [sid |-> ks[i], ref |-> <<ks[i], 1>>]]
             /\ heap = [r \in {<<ks[i], 1>> : i \in 1..n} |->
                           NewSession(SiteData("site1"), "out1",
                               at[CHOOSE i \in 1..n : ks[i] = r[1]])]
    /\ issued = MAX_SESSIONS + 2
    /\ resp = NoResp
    /\ th = <<>>
    /\ ev = <<>>
    /\ start_url = None /\ max_pages = 0 /\ depth = 0
    /\ visited = {} /\ queue = <<>> /\ pages = <<>>
    /\ fetched = <<>> /\ result = NoResult
    /\ base = None /\ href = None /\ returned = <<>>

\* One call of an eviction function; ev records the call and the store it
\* was given.
RunCleanup ==
    /\ Len(ev) < MaxEvOps
    /\ STORE' = cleanup_old_sessions(STORE, heap, now)
    /\ heap' = Collect(heap, Refs(STORE'))
    /\ ev' = Append(ev, [op |-> "cleanup_old_sessions", before |-> STORE])
    /\ UNCHANGED <<now, issued, resp, th, crawlVars, normVars>>

RunLimit ==
    /\ Len(ev) < MaxEvOps
    /\ STORE' = limit_sessions(STORE, heap)
    /\ heap' = Collect(heap, Refs(STORE'))
    /\ ev' = Append(ev, [op |-> "limit_sessions", before |-> STORE])
    /\ UNCHANGED <<now, issued, resp, th, crawlVars, normVars>>

\* Both calls in the order analyze makes them; ev also records which
\* entries were expired.
RunEviction ==
    /\ Len(ev) < MaxEvOps
    /\ STORE' = cleanup_then_limit(STORE, heap, now)
    /\ heap' = Collect(heap, Refs(STORE'))
    /\ ev' = Append(ev, [op |-> "cleanup_then_limit", before |-> STORE,
                         expired |-> ExpiredSids(STORE, heap, now)])
    /\ UNCHANGED <<now, issued, resp, th, crawlVars, normVars>>

NextEvict == RunCleanup \/ RunLimit \/ RunEviction

SpecEvict == InitEvict /\ [][NextEvict]_vars

\* ------------------------------------------------------------------------
\* SpecConc: the handlers run by concurrent threads
\* ------------------------------------------------------------------------
\* app.run serves each request in a thread of its own and the code takes no
\* lock, so handlers interleave between their accesses to STORE.  A step
\* below is one such access (a scan, a delete, a lookup, a write) run
\* without interruption; the remote calls of a request lie between steps.
NumThreads == 2
Threads == 1..NumThreads

\* The request fields sent in SpecConc.
ConcSites == {"site1"}
ConcOutputs == {"out1"}

\* A thread between requests.
Idle == [pc |-> "idle", session_id |-> None, site_url |-> None, sid |-> None,
         to_delete |-> <<>>, sess |-> None]

InitConc ==
    /\ STORE = <<>>
    /\ heap = [r \in {} |-> None]
    /\ now = 0
    /\ issued = 0
    /\ resp = NoResp
    /\ th = [t \in Threads |-> Idle]
    /\ ev = <<>>
    /\ start_url = None /\ max_pages = 0 /\ depth = 0
    /\ visited = {} /\ queue = <<>> /\ pages = <<>>
    /\ fetched = <<>> /\ result = NoResult
    /\ base = None /\ href = None /\ returned = <<>>

\* The dict objects some thread still holds in its local `sess`.
Held(T) == {T[t].sess : t \in {u \in Threads : T[u].sess # None}}

\* The response Flask gives when the handler raises: del STORE[sid] on a
\* key that is gone raises KeyError outside any try block.
Crash(kind, session_id) ==
    Response(kind, session_id, 500, [error |-> "KeyError"], <<>>)

\* /analyze arrives at thread t.
AnalyzeArrive(t, site_url, existing_sid) ==
    /\ th[t].pc = "idle"
    /\ th' = [th EXCEPT ![t] = [Idle EXCEPT !.pc = "cleanup_old_sessions",
                                            !.site_url = site_url,
                                            !.session_id = existing_sid]]
    /\ resp' = NoResp
    /\ UNCHANGED <<STORE, heap, now, issued>>

\* cleanup_old_sessions: the scan that builds to_delete.
CleanupScan(t) ==
    /\ th[t].pc = "cleanup_old_sessions"
    /\ th' = [th EXCEPT ![t].pc = "cleanup_del",
                        ![t].to_delete = ExpiredSids(STORE, heap, now)]
    /\ resp' = NoResp
    /\ UNCHANGED <<STORE, heap, now, issued>>

\* One `del STORE[sid]` of an eviction loop.
EvictDel(t) ==
    LET sid == Head(th[t].to_delete)
    IN  /\ th[t].to_delete # <<>>
        /\ IF Has(STORE, sid)
           THEN /\ STORE' = Del(STORE, sid)
                /\ heap' = Collect(heap, Refs(STORE') \cup Held(th))
                /\ th' = [th EXCEPT ![t].to_delete = Tail(@)]
                /\ resp' = NoResp
           ELSE /\ th' = [th EXCEPT ![t] = Idle]
                /\ resp' = Crash("analyze", th[t].session_id)
                /\ UNCHANGED <<STORE, heap>>
        /\ UNCHANGED <<now, issued>>

CleanupDel(t) ==
    /\ th[t].pc = "cleanup_del"
    /\ EvictDel(t)

\* limit_sessions: the length test, the sort and the count to delete.
LimitScan(t) ==
    /\ th[t].pc = "cleanup_del"
    /\ th[t].to_delete = <<>>
    /\ th' = [th EXCEPT ![t].pc = "limit_del",
                        ![t].to_delete = OverflowSids(STORE, heap)]
    /\ resp' = NoResp
    /\ UNCHANGED <<STORE, heap, now, issued>>

LimitDel(t) ==
    /\ th[t].pc = "limit_del"
    /\ EvictDel(t)

\* analyze after the evictions: the site_url test and the choice of sid.
AnalyzePick(t) ==
    /\ th[t].pc = "limit_del"
    /\ th[t].to_delete = <<>>
    /\ IF th[t].site_url = None
       THEN /\ th' = [th EXCEPT ![t] = Idle]
            /\ resp' = Response("analyze", th[t].session_id, 400, Error,
                               AnalyzeCalls(None, "not_called"))
            /\ UNCHANGED issued
       ELSE IF ReuseSid(STORE, th[t].session_id)
       THEN /\ th' = [th EXCEPT ![t].pc = "analyze_remote",
                                ![t].sid = th[t].session_id]
            /\ resp' = NoResp
            /\ UNCHANGED issued
       ELSE /\ issued < MaxUuid
            /\ th' = [th EXCEPT ![t].pc = "analyze_remote", ![t].sid = FreshSid]
            /\ resp' = NoResp
            /\ issued' = issued + 1
    /\ UNCHANGED <<STORE, heap, now>>

\* The remote calls of analyze return or raise; on success STORE[sid] is set.
AnalyzeFinish(t, outcome, model_output) ==
    LET sid == th[t].sid
        T   == [th EXCEPT ![t] = Idle]
        r   == NewRef(Collect(heap, Refs(Del(STORE, sid)) \cup Held(T)), sid)
    IN  /\ th[t].pc = "analyze_remote"
        /\ th' = T
        /\ IF outcome # "ok"
           THEN /\ resp' = Response("analyze", th[t].session_id, 500, Error,
                                   AnalyzeCalls(th[t].site_url, outcome))
                /\ UNCHANGED <<STORE, heap>>
           ELSE /\ STORE' = Put(STORE, sid, r)
                /\ heap' = [q \in Refs(STORE') \cup Held(T) |->
                               IF q = r
                               THEN NewSession(SiteData(th[t].site_url),
                                               model_output, now)
                               ELSE heap[q]]
                /\ resp' = Response("analyze", th[t].session_id, 200,
                               [session_id |-> sid, result |-> model_output],
                               AnalyzeCalls(th[t].site_url, outcome))
        /\ UNCHANGED <<now, issued>>

\* /followup arrives at thread t: the lookup, `sess = STORE[sid]`.
FollowupArrive(t, sid) ==
    /\ th[t].pc = "idle"
    /\ IF NotFound(STORE, sid)
       THEN /\ resp' = Response("followup", sid, 404, Error,
                               FollowupCalls(FALSE, None, "not_called"))
            /\ UNCHANGED th
       ELSE /\ th' = [th EXCEPT ![t] = [Idle EXCEPT !.pc = "followup_remote",
                                                   !.session_id = sid,
                                                   !.sid = sid,
                                                   !.sess = Get(STORE, sid)]]
            /\ resp' = NoResp
    /\ UNCHANGED <<STORE, heap, now, issued>>

\* The remote calls of followup return or raise; on success the three
\* writes go to the dict object looked up on arrival.
FollowupFinish(t, user_instruction, outcome, model_text) ==
    LET T == [th EXCEPT ![t] = Idle]
        H == IF outcome = "ok"
             THEN [heap EXCEPT ![th[t].sess] =
                      FollowupWrite(@, user_instruction, model_text)]
             ELSE heap
    IN  /\ th[t].pc = "followup_remote"
        /\ outcome = "ok" => Len(heap[th[t].sess].history) + 2 <= MaxHistory
        /\ th' = T
        /\ heap' = Collect(H, Refs(STORE) \cup Held(T))
        /\ resp' = IF outcome = "ok"
                   THEN Response("followup", th[t].sid, 200, [result |-> model_text],
                            FollowupCalls(TRUE, user_instruction, outcome))
                   ELSE Response("followup", th[t].sid, 500, Error,
                            FollowupCalls(TRUE, user_instruction, outcome))
        /\ UNCHANGED <<STORE, now, issued>>

\* /clear-chat at thread t.
ClearChatRun(t, sid) ==
    /\ th[t].pc = "idle"
    /\ clear_chat(sid)
    /\ UNCHANGED th

\* The session_id values sent in SpecConc.
ConcSids == ClientSids \ {ClientSid}

ConcAnalyzeArrive ==
    /\ \E t \in Threads, site_url \in ConcSites, sid \in ConcSids :
         AnalyzeArrive(t, site_url, sid)
    /\ UNCHANGED <<ev, crawlVars, normVars>>

ConcCleanupScan ==
    /\ \E t \in Threads : CleanupScan(t)
    /\ UNCHANGED <<ev, crawlVars, normVars>>

ConcCleanupDel ==
    /\ \E t \in Threads : CleanupDel(t)
    /\ UNCHANGED <<ev, crawlVars, normVars>>

ConcLimitScan ==
    /\ \E t \in Threads : LimitScan(t)
    /\ UNCHANGED <<ev, crawlVars, normVars>>

ConcLimitDel ==
    /\ \E t \in Threads : LimitDel(t)
    /\ UNCHANGED <<ev, crawlVars, normVars>>

ConcAnalyzePick ==
    /\ \E t \in Threads : AnalyzePick(t)
    /\ UNCHANGED <<ev, crawlVars, normVars>>

ConcAnalyzeFinish ==
    /\ \E t \in Threads, outcome \in {"ok", "model_fail"} :
         \E model_output \in IF outcome = "ok" THEN ConcOutputs ELSE {None} :
           AnalyzeFinish(t, outcome, model_output)
    /\ UNCHANGED <<ev, crawlVars, normVars>>

ConcFollowupArrive ==
    /\ \E t \in Threads, sid \in ConcSids : FollowupArrive(t, sid)
    /\ UNCHANGED <<ev, crawlVars, normVars>>

ConcFollowupFinish ==
    /\ \E t \in Threads, outcome \in {"ok", "model_fail"} :
         \E model_text \in IF outcome = "ok" THEN ConcOutputs ELSE {None} :
           FollowupFinish(t, "ask", outcome, model_text)
    /\ UNCHANGED <<ev, crawlVars, normVars>>

ConcClearChat ==
    /\ \E t \in Threads, sid \in ConcSids : ClearChatRun(t, sid)
    /\ UNCHANGED <<ev, crawlVars, normVars>>

TickConc ==
    /\ now + TickHours <= MaxClock
    /\ now' = now + TickHours
    /\ resp' = NoResp
    /\ UNCHANGED <<STORE, heap, issued, th, ev, crawlVars, normVars>>

NextConc ==
    \/ ConcAnalyzeArrive \/ ConcCleanupScan \/ ConcCleanupDel
    \/ ConcLimitScan \/ ConcLimitDel \/ ConcAnalyzePick \/ ConcAnalyzeFinish
    \/ ConcFollowupArrive \/ ConcFollowupFinish \/ ConcClearChat
    \/ TickConc

SpecConc == InitConc /\ [][NextConc]_vars

\* ------------------------------------------------------------------------
\* SpecCrawl: crawl_site, one loop iteration per step
\* ------------------------------------------------------------------------
\* Largest max_pages and depth arguments, most links kept from one page.
MaxPagesArg == 3
MaxDepthArg == 2
MaxLinks == 2

\* The URLs of the site (same registered domain as start_url).
Urls == {"u1", "u2", "u3"}

\* The start URLs tried.  The URLs are interchangeable, so one stands for
\* all of them.
StartUrls == {"u1"}

\* The lists `links` a fetched page can yield: the same-domain links left
\* by normalize_link and same_domain, in document order, repeats included.
LinkLists == UNION {[1..n -> Urls] : n \in 0..MaxLinks}

\* What requests.get and the parsing of one URL can do: fail (a status
\* other than 200, a timeout, a network or parse error) or yield a page.
FetchResults == {[ok |-> FALSE, links |-> <<>>]} \cup
                {[ok |-> TRUE, links |-> ls] : ls \in LinkLists}

InitCrawl ==
    /\ start_url \in StartUrls
    /\ max_pages \in 0..MaxPagesArg
    /\ depth \in 0..MaxDepthArg
    /\ visited = {}
    /\ queue = <<<<start_url, 0>>>>
    /\ pages = <<>>
    /\ fetched = <<>>
    /\ result = NoResult
    /\ STORE = <<>> /\ heap = [r \in {} |-> None] /\ now = 0 /\ issued = 0
    /\ resp = NoResp /\ th = <<>> /\ ev = <<>>
    /\ base = None /\ href = None /\ returned = <<>>

\* Mutant of LoopRuns: the page limit is tested with <=.
LoopRuns_one_more == queue # <<>> /\ Len(pages) <= max_pages

\* `while queue and len(pages) < max_pages`
LoopRuns == queue # <<>> /\ Len(pages) < max_pages

\* Mutant of Skipped: the visited set is not consulted at dequeue time.
Skipped_ignores_visited(url, d) == d > depth

\* Mutant of Skipped: the depth test is off by one.
Skipped_depth_off_by_one(url, d) == url \in visited \/ d > depth + 1

\* `if url in visited or d > depth: continue`
Skipped(url, d) == url \in visited \/ d > depth

\* `for l in links: if l not in visited: queue.append((l, d + 1))`, with
\* vis the visited set at that point.
Enqueue(q, links, vis, d) ==
    q \o SelectSeq([i \in 1..Len(links) |-> <<links[i], d + 1>>],
                   LAMBDA e : e[1] \notin vis)

\* An iteration that dequeues and skips.
CrawlSkip ==
    /\ result = NoResult
    /\ LoopRuns
    /\ Skipped(Head(queue)[1], Head(queue)[2])
    /\ queue' = Tail(queue)
    /\ UNCHANGED <<start_url, max_pages, depth, visited, pages, fetched, result>>
    /\ UNCHANGED <<storeVars, th, ev, normVars>>

\* Mutant of crawl_fetch: a failing fetch ends the crawl, the rest of the
\* queue is dropped.
crawl_fetch_failure_ends_crawl(fr) ==
    LET url == Head(queue)[1]
        d   == Head(queue)[2]
    IN  /\ result = NoResult
        /\ LoopRuns
        /\ ~Skipped(url, d)
        /\ visited' = visited \cup {url}
        /\ fetched' = Append(fetched, url)
        /\ IF fr.ok
           THEN /\ pages' = Append(pages, [url |-> url, links |-> fr.links])
                /\ queue' = Enqueue(Tail(queue), fr.links, visited', d)
           ELSE /\ pages' = pages
                /\ queue' = <<>>
        /\ UNCHANGED <<start_url, max_pages, depth, result>>

\* Mutant of crawl_fetch: a URL whose fetch fails goes back to the end of
\* the queue to be tried again.
crawl_fetch_requeue_on_failure(fr) ==
    LET url == Head(queue)[1]
        d   == Head(queue)[2]
    IN  /\ result = NoResult
        /\ LoopRuns
        /\ ~Skipped(url, d)
        /\ IF fr.ok
           THEN /\ visited' = visited \cup {url}
                /\ fetched' = Append(fetched, url)
                /\ pages' = Append(pages, [url |-> url, links |-> fr.links])
                /\ queue' = Enqueue(Tail(queue), fr.links, visited', d)
           ELSE /\ visited' = visited
                /\ fetched' = fetched
                /\ pages' = pages
                /\ queue' = Append(Tail(queue), <<url, d>>)
        /\ UNCHANGED <<start_url, max_pages, depth, result>>

\* An iteration that dequeues and fetches; fr is what the fetch gives.
crawl_fetch(fr) ==
    LET url == Head(queue)[1]
        d   == Head(queue)[2]
    IN  /\ result = NoResult
        /\ LoopRuns
        /\ ~Skipped(url, d)
        /\ visited' = visited \cup {url}
        /\ fetched' = Append(fetched, url)
        /\ IF fr.ok
           THEN /\ pages' = Append(pages, [url |-> url, links |-> fr.links])
                /\ queue' = Enqueue(Tail(queue), fr.links, visited', d)
           ELSE /\ pages' = pages
                /\ queue' = Tail(queue)
        /\ UNCHANGED <<start_url, max_pages, depth, result>>

CrawlFetch ==
    /\ \E fr \in FetchResults : crawl_fetch(fr)
    /\ UNCHANGED <<storeVars, th, ev, normVars>>

\* The loop has ended: `return {"start_url": ..., "pages": pages, "count": len(pages)}`
CrawlReturn ==
    /\ result = NoResult
    /\ ~LoopRuns
    /\ result' = [start_url |-> start_url, pages |-> pages, count |-> Len(pages)]
    /\ UNCHANGED <<start_url, max_pages, depth, visited, queue, pages, fetched>>
    /\ UNCHANGED <<storeVars, th, ev, normVars>>

NextCrawl == CrawlSkip \/ CrawlFetch \/ CrawlReturn

SpecCrawl == InitCrawl /\ [][NextCrawl]_vars

\* crawl_site with every request returning or timing out (timeout=30), so
\* that each iteration of the loop comes to its end.
SpecCrawlLive == SpecCrawl /\ WF_vars(NextCrawl)

\* ------------------------------------------------------------------------
\* SpecNorm: normalize_link applied to a reference and to its own result
\* ------------------------------------------------------------------------
\* Longest href drawn, in characters, and the number of applications.
MaxRefLen == 3
MaxApply == 2

\* A str is a sequence of characters.  The prefixes normalize_link tests
\* stand as one character each; "mailto:" stands for the schemes of
\* bad_prefixes, " " for whitespace, "a" for any other character.
Chars == {"http://", "https://", "mailto:", "/", "#", " ", "a"}

Strs(n) == UNION {[1..k -> Chars] : k \in 0..n}

\* None where a str is expected: an href that is absent, a link refused.
NoLink == <<None>>

\* The href values drawn: absent, or a str.
Hrefs == {NoLink} \cup Strs(MaxRefLen)

\* The page URLs passed as base.
Bases == {<<"https://", "a", "/", "a">>}

\* str.strip()
RECURSIVE LStrip(_)
LStrip(s) == IF s # <<>> /\ Head(s) = " " THEN LStrip(Tail(s)) ELSE s

RECURSIVE RStrip(_)
RStrip(s) ==
    IF s # <<>> /\ s[Len(s)] = " " THEN RStrip(SubSeq(s, 1, Len(s) - 1)) ELSE s

Strip(s) == RStrip(LStrip(s))

\* str.startswith(p)
StartsWith(s, p) == Len(s) >= Len(p) /\ SubSeq(s, 1, Len(p)) = p

\* href.startswith(bad_prefixes)
BadPrefixes == {<<"mailto:">>, <<"#">>}

\* href.split("#")[0]
BeforeHash(s) ==
    LET at == {i \in 1..Len(s) : s[i] = "#"}
    IN  IF at = {} THEN s
        ELSE SubSeq(s, 1, (CHOOSE i \in at : \A j \in at : i <= j) - 1)

\* urllib's urljoin(base, ref) for a ref without scheme: an empty ref gives
\* base, a ref starting with "/" replaces the path of base, any other ref
\* replaces the last segment of the path.
urljoin(b, ref) ==
    LET slashes == {i \in 1..Len(b) : b[i] = "/"}
        first   == CHOOSE i \in slashes : \A j \in slashes : i <= j
        last    == CHOOSE i \in slashes : \A j \in slashes : i >= j
    IN  IF ref = <<>> THEN b
        ELSE IF Head(ref) = "/" THEN SubSeq(b, 1, first - 1) \o ref
        ELSE SubSeq(b, 1, last) \o ref

\* href None or "" is refused, then href.strip(), the bad_prefixes test and
\* the three forms of reference.
normalize_link(b, h) ==
    IF h = NoLink \/ h = <<>> THEN NoLink
    ELSE LET s == Strip(h)
         IN  IF \E p \in BadPrefixes : StartsWith(s, p) THEN NoLink
             ELSE IF StartsWith(s, <<"http://">>) \/ StartsWith(s, <<"https://">>)
             THEN BeforeHash(s)
             ELSE IF StartsWith(s, <<"/", "/">>) THEN <<"https:">> \o BeforeHash(s)
             ELSE urljoin(b, BeforeHash(s))

InitNorm ==
    /\ base \in Bases
    /\ href \in Hrefs
    /\ returned = <<>>
    /\ STORE = <<>> /\ heap = [r \in {} |-> None] /\ now = 0 /\ issued = 0
    /\ resp = NoResp /\ th = <<>> /\ ev = <<>>
    /\ start_url = None /\ max_pages = 0 /\ depth = 0
    /\ visited = {} /\ queue = <<>> /\ pages = <<>>
    /\ fetched = <<>> /\ result = NoResult

\* normalize_link is called on href, then on what it returned.
Normalize ==
    /\ Len(returned) < MaxApply
    /\ returned' = Append(returned, normalize_link(base,
                        IF returned = <<>> THEN href ELSE returned[Len(returned)]))
    /\ UNCHANGED <<base, href>>
    /\ UNCHANGED <<storeVars, th, ev, crawlVars>>

NextNorm == Normalize

SpecNorm == InitNorm /\ [][NextNorm]_vars

\* ------------------------------------------------------------------------
\* Claims
\* ------------------------------------------------------------------------
Session(S, H, sid) == H[Get(S, sid)]

\* C1: after any sequence of completed requests the store holds at most
\* MAX_SESSIONS entries.
C1_StoreWithinCapacity == Len(STORE) <= MAX_SESSIONS

\* C2: a /followup or /clear-chat request whose session is older than the
\* TTL when the request is handled is answered 404 (the session counts as
\* not found; it is neither read nor changed).  The formula looks at the
\* requests whose remote calls do not fail.
C2_ExpiredSessionNotFound ==
    [][\A sid \in Keys(STORE) :
          (/\ resp'.kind \in {"followup", "clear_chat"}
           /\ resp'.session_id = sid
           /\ resp'.status # 500
           /\ Expired(Session(STORE, heap, sid), now))
          => (resp'.status = 404 /\ heap' = heap)]_vars

\* C3: MAX_SESSIONS + 1 successful /analyze requests in a row, each creating
\* a new session, within the TTL, starting from the empty store, leave
\* exactly MAX_SESSIONS sessions, the first one created being the one gone.
C3_OverflowEvictsOldest ==
    (/\ issued = MAX_SESSIONS + 1
     /\ now <= SESSION_TTL_HOURS
     /\ resp.kind = "analyze" /\ resp.status = 200
     /\ resp.body.session_id = Uuid(MAX_SESSIONS + 1)
     /\ resp.session_id = None)
    => (/\ Len(STORE) = MAX_SESSIONS
        /\ Keys(STORE) = {Uuid(i) : i \in 2..(MAX_SESSIONS + 1)})

\* The requests in flight are for different session identifiers (a request
\* that sends none gets an identifier of its own).
DifferentSessions ==
    \A t, u \in Threads :
        (t # u /\ th[t].pc # "idle" /\ th[u].pc # "idle")
        => (th[t].session_id = None \/ th[t].session_id # th[u].session_id)

\* The identifiers the step is about: those of the thread that moved and of
\* the request just answered.
StepSids ==
    {th[t].sid : t \in {u \in Threads : th'[u] # th[u]}}
    \cup {th'[t].sid : t \in {u \in Threads : th'[u] # th[u]}}
    \cup (IF resp'.kind = "none" THEN {} ELSE {resp'.session_id})

\* C4: with concurrent requests for different session identifiers, no
\* request fails because of another request's change of the store, and no
\* request changes a session of another identifier except by evicting it.
C4_ConcurrentRequestsIndependent ==
    [][DifferentSessions =>
          /\ (resp'.kind # "none" /\ resp'.status = 500) => resp'.body = Error
          /\ \A k \in (Keys(STORE) \cap Keys(STORE')) \ StepSids :
                Session(STORE', heap', k) = Session(STORE, heap, k)]_vars

\* C5: when /followup for s returns 200, the session then stored under s
\* ends with this follow-up's user and assistant entries and has the
\* returned text as last_followup, whatever ran during the model call.
C5_FollowupLandsInStoredSession ==
    [][\A t \in Threads :
          (/\ th[t].pc = "followup_remote"
           /\ th'[t].pc = "idle"
           /\ resp'.status = 200)
          => /\ Has(STORE', th[t].sid)
             /\ LET sess == Session(STORE', heap', th[t].sid)
                    n    == Len(sess.history)
                IN  /\ sess.last_followup = resp'.body.result
                    /\ n >= 2
                    /\ sess.history[n - 1] = [role |-> "user", content |-> "ask"]
                    /\ sess.history[n] = [role |-> "assistant",
                                          content |-> resp'.body.result]]_vars

\* C6: the result of crawl_site has at most max_pages pages, and its count
\* is the length of its pages.
C6_ResultWithinMaxPages ==
    result # NoResult =>
        /\ Len(result.pages) <= max_pages
        /\ result.count = Len(result.pages)

\* The crawl stopped at the page limit with URLs still queued.
C6_Witness ==
    /\ result # NoResult
    /\ max_pages > 1
    /\ Len(result.pages) = max_pages
    /\ queue # <<>>

\* C7: within one crawl no URL is requested twice, whether its fetch
\* succeeded or failed, so no two pages of the result have the same url.
C7_EachUrlFetchedOnce ==
    /\ \A i, j \in 1..Len(fetched) : i # j => fetched[i] # fetched[j]
    /\ \A i, j \in 1..Len(pages) : i # j => pages[i].url # pages[j].url

\* Places (page, position) where a page of the crawl links to url.
LinksTo(url) ==
    {<<i, k>> \in (1..Len(pages)) \X (1..MaxLinks) :
        k <= Len(pages[i].links) /\ pages[i].links[k] = url}

\* The crawl is over; one URL, linked from two pages, was fetched and gave
\* a page, and another, linked twice, was fetched and failed.
C7_Witness ==
    /\ result # NoResult
    /\ \E u \in Urls :
         /\ \E p, q \in LinksTo(u) : p[1] # q[1]
         /\ \E i \in 1..Len(pages) : pages[i].url = u
    /\ \E u \in Urls :
         /\ Cardinality(LinksTo(u)) >= 2
         /\ \E i \in 1..Len(fetched) : fetched[i] = u
         /\ \A i \in 1..Len(pages) : pages[i].url # u

\* URLs within k links of start_url, each link one of a page collected.
RECURSIVE ReachedWithin(_)
ReachedWithin(k) ==
    IF k = 0 THEN {start_url}
    ELSE LET R == ReachedWithin(k - 1)
         IN  R \cup {u \in Urls : \E p \in LinksTo(u) : pages[p[1]].url \in R}

\* C8: every URL fetched, and so every page returned, is within depth
\* links of start_url, each link taken from a page of the result.
C8_DepthBounded ==
    /\ \A i \in 1..Len(fetched) : fetched[i] \in ReachedWithin(depth)
    /\ \A i \in 1..Len(pages) : pages[i].url \in ReachedWithin(depth)

\* A crawl of depth >= 1 ran its queue empty below the page limit and left
\* a linked URL unfetched: that URL was only too deep.
C8_Witness ==
    /\ result # NoResult
    /\ depth >= 1
    /\ queue = <<>>
    /\ Len(pages) < max_pages
    /\ Len(pages) >= 2
    /\ \E u \in Urls :
         /\ LinksTo(u) # {}
         /\ \A i \in 1..Len(fetched) : fetched[i] # u

\* C9: right after limit_sessions returns the store holds at most
\* MAX_SESSIONS entries, and right after cleanup_old_sessions returns it
\* holds no entry older than SESSION_TTL_HOURS, whatever it held before.
C9_EvictionPostconditions ==
    ev # <<>> =>
        /\ ev[Len(ev)].op = "limit_sessions" => Len(STORE) <= MAX_SESSIONS
        /\ ev[Len(ev)].op = "cleanup_old_sessions" =>
               \A sid \in Keys(STORE) : now - Session(STORE, heap, sid).created_at
                                             <= SESSION_TTL_HOURS

\* Both functions have removed entries: cleanup_old_sessions some expired
\* ones and then limit_sessions some of an over-full store.
C9_Witness ==
    /\ Len(ev) = 2
    /\ ev[1].op = "cleanup_old_sessions" /\ Len(ev[2].before) < Len(ev[1].before)
    /\ ev[2].op = "limit_sessions" /\ Len(ev[2].before) > MAX_SESSIONS
    /\ Len(STORE) < Len(ev[2].before)

\* The session a successful /analyze leaves under sid: nothing but the
\* results of this call.
FreshlyStored(sid, site_url, model_output) ==
    /\ resp'.status = 200
    /\ resp'.body.session_id = sid
    /\ resp'.body.result = model_output
    /\ Has(STORE', sid)
    /\ Session(STORE', heap', sid) =
           [site |-> [start_url |-> site_url], first_output |-> model_output,
            last_followup |-> None, history |-> <<>>, created_at |-> now']

\* C10 as stated: a successful /analyze carrying a session_id that is in the
\* store when the request arrives stores a wholly new session under that
\* identifier and returns it.
C10_ReplacesWhenPresentAtArrival ==
    [][\A site_url \in Sites, sid \in Keys(STORE), model_output \in Outputs :
          analyze(site_url, sid, "ok", model_output)
          => FreshlyStored(sid, site_url, model_output)]_vars

\* C10 amended: the same, for a session_id still in the store after the
\* eviction the request itself runs first.
C10_ReplacesWhenPresentAfterEviction ==
    [][\A site_url \in Sites, sid \in Keys(STORE), model_output \in Outputs :
          (/\ analyze(site_url, sid, "ok", model_output)
           /\ Has(limit_sessions(cleanup_old_sessions(STORE, heap, now), heap), sid))
          => FreshlyStored(sid, site_url, model_output)]_vars

\* A successful /analyze has taken over the identifier it was sent.
C10_Witness ==
    /\ resp.kind = "analyze" /\ resp.status = 200
    /\ resp.session_id # None
    /\ resp.body.session_id = resp.session_id
    /\ Has(STORE, resp.session_id)

\* C11: a call of limit_sessions that removes entries removes exactly
\* (size - MAX_SESSIONS) of them, and each removed entry was created no
\* later than each entry that stays.
C11_CapacityEvictsOldestFirst ==
    [][(/\ Len(ev') = Len(ev) + 1
        /\ ev'[Len(ev')].op = "limit_sessions"
        /\ Keys(STORE') # Keys(STORE))
       => /\ Keys(STORE') \subseteq Keys(STORE)
          /\ Len(STORE) - Len(STORE') = Len(STORE) - MAX_SESSIONS
          /\ \A gone \in Keys(STORE) \ Keys(STORE'), kept \in Keys(STORE') :
                 /\ Session(STORE', heap', kept) = Session(STORE, heap, kept)
                 /\ Session(STORE, heap, gone).created_at
                        <= Session(STORE, heap, kept).created_at]_vars

\* limit_sessions has removed two entries of a store of MAX_SESSIONS + 2 and
\* kept the one inserted first: the order of removal is by age, not by
\* insertion.
C11_Witness ==
    /\ ev # <<>>
    /\ ev[Len(ev)].op = "limit_sessions"
    /\ Len(ev[Len(ev)].before) = MAX_SESSIONS + 2
    /\ Len(STORE) = MAX_SESSIONS
    /\ STORE[1] = ev[Len(ev)].before[1]

\* C12: /clear-chat for a session in the store empties its history, sets its
\* last_followup to None, leaves its other fields, every other session and
\* the store's keys as they were, and reports the number of history entries
\* it had; for a missing or unknown session_id it answers 404 and changes
\* nothing.
C12_ClearChatFrame ==
    [][\A sid \in ClientSids :
          (resp'.kind = "clear_chat" /\ resp'.session_id = sid)
          => IF sid # None /\ sid \in Keys(STORE)
             THEN /\ resp'.status = 200
                  /\ resp'.body.messages_count =
                         Len(Session(STORE, heap, sid).history)
                  /\ STORE' = STORE
                  /\ DOMAIN heap' = DOMAIN heap
                  /\ \A other \in Keys(STORE) \ {sid} :
                         Session(STORE', heap', other) = Session(STORE, heap, other)
                  /\ Session(STORE', heap', sid) =
                         [site          |-> Session(STORE, heap, sid).site,
                          first_output  |-> Session(STORE, heap, sid).first_output,
                          created_at    |-> Session(STORE, heap, sid).created_at,
                          history       |-> <<>>,
                          last_followup |-> None]
             ELSE /\ resp'.status = 404
                  /\ STORE' = STORE
                  /\ heap' = heap]_vars

\* /clear-chat has just emptied a session that had history entries and a
\* last_followup.
C12_Witness ==
    /\ resp.kind = "clear_chat" /\ resp.status = 200
    /\ resp.body.messages_count > 0
    /\ Has(STORE, resp.session_id)
    /\ Session(STORE, heap, resp.session_id).history = <<>>
    /\ Session(STORE, heap, resp.session_id).last_followup = None

\* C13: /followup with a session_id that is missing or not in the store
\* answers 404 with an error body, starts no document fetch and no model
\* request, and leaves the store as it was.
C13_FollowupUnknownSession ==
    [][(resp'.kind = "followup" /\ NotFound(STORE, resp'.session_id))
       => /\ resp'.status = 404
          /\ "error" \in DOMAIN resp'.body
          /\ resp'.calls = <<>>
          /\ STORE' = STORE
          /\ heap' = heap]_vars

\* /followup has just been refused for an identifier the client made up,
\* while the store holds a session.
C13_Witness ==
    /\ resp.kind = "followup" /\ resp.status = 404
    /\ resp.session_id = ClientSid
    /\ STORE # <<>>

\* The URLs of seq fetched that gave no page of ps: their fetch failed.
FailedFetches(fs, ps) ==
    {i \in 1..Len(fs) : \A k \in 1..Len(ps) : ps[k].url # fs[i]}

\* C14: a fetch that fails does not end the crawl: the URL gives no page,
\* the pages collected so far stay, the loop goes on with the rest of the
\* queue, and crawl_site still returns its result; when the fetch of
\* start_url fails the result has no pages and count 0.
C14_FetchFailureSkipsUrl ==
    [][/\ (/\ Len(fetched') = Len(fetched) + 1
           /\ Len(fetched') \in FailedFetches(fetched', pages'))
          => /\ pages' = pages
             /\ queue' = Tail(queue)
             /\ result' = NoResult
       /\ (result' # NoResult /\ 1 \in FailedFetches(fetched', pages'))
          => /\ "error" \notin DOMAIN result'
             /\ result'.pages = <<>>
             /\ result'.count = 0]_vars

\* crawl_site has returned pages although a fetch failed on the way: a page
\* was collected after the failure.
C14_Witness ==
    /\ result # NoResult
    /\ \E i \in FailedFetches(fetched, pages) :
         \E j \in (i + 1)..Len(fetched) : j \notin FailedFetches(fetched, pages)

\* C15: when the document fetch or the model request of /analyze or /followup
\* fails, the answer is 500, each remote operation was started at most once,
\* and no session is written: after a failed /analyze the store has no new
\* key and every session still in it is as it was, after a failed /followup
\* the store and every session are as they were.
C15_UpstreamFailureWritesNothing ==
    [][(resp'.kind \in {"analyze", "followup"} /\ resp'.status = 500)
       => /\ "error" \in DOMAIN resp'.body
          /\ \A i, j \in 1..Len(resp'.calls) :
                 i # j => resp'.calls[i] # resp'.calls[j]
          /\ issued' = issued
          /\ Keys(STORE') \subseteq Keys(STORE)
          /\ \A sid \in Keys(STORE') :
                 Session(STORE', heap', sid) = Session(STORE, heap, sid)
          /\ resp'.kind = "followup" => (STORE' = STORE /\ heap' = heap)]_vars

\* The model request of a /followup has just failed on a session that has
\* history entries and a last_followup.
C15_Witness ==
    /\ resp.kind = "followup" /\ resp.status = 500
    /\ resp.calls = <<"fetch_gdoc_text", "call_followup_model">>
    /\ Has(STORE, resp.session_id)
    /\ Session(STORE, heap, resp.session_id).history # <<>>
    /\ Session(STORE, heap, resp.session_id).last_followup # None

\* C16: cleanup_old_sessions followed by limit_sessions removes every
\* expired entry; when at most MAX_SESSIONS entries are not expired it
\* removes nothing else, and otherwise it leaves MAX_SESSIONS entries, each
\* entry that stays being no older than each unexpired entry removed.
C16_ExpiryThenCapacity ==
    [][(/\ Len(ev') = Len(ev) + 1
        /\ ev'[Len(ev')].op = "cleanup_then_limit")
       => LET old   == {sid \in Keys(STORE) :
                           now - Session(STORE, heap, sid).created_at
                               > SESSION_TTL_HOURS}
              young == Keys(STORE) \ old
              kept  == Keys(STORE')
          IN  /\ kept \subseteq young
              /\ Cardinality(young) <= MAX_SESSIONS => kept = young
              /\ Cardinality(young) > MAX_SESSIONS =>
                    /\ Cardinality(kept) = MAX_SESSIONS
                    /\ \A gone \in young \ kept, stay \in kept :
                           Session(STORE, heap, gone).created_at
                               <= Session(STORE, heap, stay).created_at
              /\ \A sid \in kept :
                     Session(STORE', heap', sid) = Session(STORE, heap, sid)]_vars

\* The two calls have run on a store of MAX_SESSIONS + 2 entries of which
\* one was expired: that one went for its age, one more for capacity, and
\* MAX_SESSIONS stay.
C16_Witness ==
    /\ ev # <<>>
    /\ ev[Len(ev)].op = "cleanup_then_limit"
    /\ Len(ev[Len(ev)].before) = MAX_SESSIONS + 2
    /\ Len(ev[Len(ev)].expired) = 1
    /\ Len(STORE) = MAX_SESSIONS

\* C17: crawl_site returns, whatever the links of the site (cycles
\* included) and whichever fetches fail, and when it does the queue is
\* empty or the pages collected number max_pages.
C17_CrawlTerminates ==
    <>(/\ result # NoResult
       /\ (queue = <<>> \/ Len(pages) = max_pages))

\* crawl_site has returned from a site whose pages link back to start_url
\* and to themselves, with a failed fetch on the way.
C17_Witness ==
    /\ result # NoResult
    /\ LinksTo(start_url) # {}
    /\ \E i \in 1..Len(pages) : <<i, 1>> \in LinksTo(pages[i].url)
    /\ FailedFetches(fetched, pages) # {}

\* An href that begins with http:// or https:// once the whitespace around
\* it is removed.
IsAbsolute(h) ==
    /\ h # NoLink
    /\ (StartsWith(Strip(h), <<"http://">>) \/ StartsWith(Strip(h), <<"https://">>))

\* C18: for an href that begins with http:// or https://, with or without
\* whitespace around it and a #fragment, normalize_link applied to its own
\* result returns that result again.
C18_NormalizeIdempotent ==
    (Len(returned) >= 2 /\ IsAbsolute(href)) => returned[2] = returned[1]

\* The history is a run of (user, assistant) pairs and last_followup is the
\* content of its last entry, None when there is none.
WellFormedChat(sess) ==
    LET h == sess.history
    IN  /\ Len(h) % 2 = 0
        /\ \A i \in 1..Len(h) :
               h[i].role = IF i % 2 = 1 THEN "user" ELSE "assistant"
        /\ sess.last_followup = None <=> h = <<>>
        /\ h # <<>> => sess.last_followup = h[Len(h)].content

\* C19: with requests served one at a time, after every completed request
\* each stored session has a history of even length alternating user,
\* assistant from a user entry on, and a last_followup that is None exactly
\* when the history is empty and else the content of the last entry.
C19_HistoryAlternates ==
    \A sid \in Keys(STORE) : WellFormedChat(Session(STORE, heap, sid))

\* A session has taken two follow-ups with different answers.
C19_Witness ==
    \E sid \in Keys(STORE) :
        LET h == Session(STORE, heap, sid).history
        IN  /\ Len(h) = 4
            /\ h[2].content # h[4].content

\* C20: every key of the store is an identifier uuid4() produced in some
\* /analyze: no request makes a key of a session_id it carried that was not
\* in the store when the request arrived.
C20_KeysAreServerGenerated ==
    [][/\ Keys(STORE') \subseteq {Uuid(i) : i \in 1..issued'}
       /\ \A sid \in ClientSids :
              (/\ resp'.kind \in {"analyze", "followup", "clear_chat"}
               /\ resp'.session_id = sid
               /\ sid \notin Keys(STORE))
              => sid \notin Keys(STORE')]_vars

\* A successful /analyze that carried an identifier made up by the client
\* has stored its session under another one.
C20_Witness ==
    /\ resp.kind = "analyze" /\ resp.status = 200
    /\ resp.session_id = ClientSid
    /\ resp.body.session_id # ClientSid
    /\ Has(STORE, resp.body.session_id)
    /\ ~Has(STORE, ClientSid)

====
